---- MODULE Spec2Model ----
(***************************************************************************)
(* The crawl engine of crabler (src/src/lib.rs): the two unbounded         *)
(* channels, the worker tasks and their supervising loop, the visited-link *)
(* set, the in-flight counter, the event loop and the shutdown.            *)
(*                                                                         *)
(* One Crabler instance is modelled from `new` to its drop.  The HTTP      *)
(* fetch, the file write, the selector match and the scraper's handlers    *)
(* are outside the engine: each is a nondeterministic choice over the      *)
(* outcomes it can have.                                                   *)
(***************************************************************************)
EXTENDS Integers, Sequences, FiniteSets, TLC

\* Worker tasks that start_worker may spawn.
MaxWorkers == 2
\* Calls of navigate / download_file (seed calls and calls from handlers).
MaxItems == 2
\* Elements the registered selectors match in one fetched page.
MaxElems == 1

Urls == {"a", "b"}
Dests == {"p"}
\* Statuses the fetch collaborator may answer a successful GET with.
Statuses == {200, 404}

WorkerIds == 1..MaxWorkers
ItemIds == 1..MaxItems

VARIABLES
    visited_links,      \* Arc<RwLock<HashSet<String>>>
    workinput_q,        \* workinput_ch: the messages in the channel
    workinput_closed,   \* workinput_ch: the channel is closed
    workoutput_q,       \* workoutput_ch: the messages in the channel
    workoutput_closed,  \* workoutput_ch: the channel is closed
    counter,            \* Arc<AtomicUsize>, as its residue nearest 0 (-1 is usize::MAX)
    workers,            \* Vec<JoinHandle<()>>: its length
    wpc,                \* per worker task: where it stands
    witem,              \* per worker task: the WorkInput it holds
    wcontains,          \* per worker task: `contains` read under the read lock
    wpayload,           \* per worker task: the WorkOutput it is about to send
    opc,                \* where the caller of run stands
    output,             \* event loop: the WorkOutput being processed
    elems,              \* event loop: matched elements still to dispatch
    ret,                \* event loop: the value it returned
    shut,               \* shutdown: the value it returned
    retval,             \* run: the value it returned
    exits_sent,         \* shutdown: Exit messages sent by the running shutdown
    freed,              \* the Crabler instance has been dropped
    enq_ret,            \* the value the last navigate / download_file call returned
    \* History: what happened to each message, for stating the properties.
    calls,              \* navigate / download_file calls made so far
    items,              \* the WorkInput messages sent, in order; the index is the id
    result,             \* item id -> kind of the WorkOutput computed for it
    before,             \* item id -> ids whose WorkOutput was computed when it was dequeued
    sends,              \* item id -> WorkOutput messages sent for it
    decs,               \* item id -> counter decrements made for it
    visits,             \* the Responses passed to dispatch_on_response, in order
    exits_total,        \* Exit messages sent by every shutdown
    shut_closed         \* a send of the running shutdown met a closed channel

chan_vars == <<workinput_q, workinput_closed, workoutput_q, workoutput_closed>>
worker_vars == <<wpc, witem, wcontains, wpayload>>
loop_vars == <<opc, output, elems, ret, shut, retval, exits_sent>>
hist_vars == <<calls, items, result, before, sends, decs, visits, exits_total, shut_closed>>
vars == <<visited_links, chan_vars, counter, workers, worker_vars, loop_vars,
          freed, enq_ret, hist_vars>>

----------------------------------------------------------------------------
\* Messages

NoInput == [kind |-> "None", url |-> "", destination |-> "", id |-> 0]
Exit == [kind |-> "Exit", url |-> "", destination |-> "", id |-> 0]
Navigate(u) == [kind |-> "Navigate", url |-> u, destination |-> "", id |-> 0]
Download(u, d) == [kind |-> "Download", url |-> u, destination |-> d, id |-> 0]

NoOutput == [kind |-> "None", url |-> "", status |-> 0, destination |-> "", id |-> 0]
Markup(u, s, i) == [kind |-> "Markup", url |-> u, status |-> s, destination |-> "", id |-> i]
Downloaded(u, d, i) == [kind |-> "Download", url |-> u, status |-> 0, destination |-> d, id |-> i]
Noop(u, i) == [kind |-> "Noop", url |-> u, status |-> 0, destination |-> "", id |-> i]
Error(u, i) == [kind |-> "Error", url |-> u, status |-> 0, destination |-> "", id |-> i]
ExitOutput == [kind |-> "Exit", url |-> "", status |-> 0, destination |-> "", id |-> 0]

----------------------------------------------------------------------------
\* The atomic counter, the channels, the visited set

\* An enqueue that leaves the counter alone.
fetch_add_none(c) == c

fetch_add(c) == c + 1

fetch_sub(c) == c - 1

\* The loop ends one decrement early.
counter_is_zero_early(c) == c <= 1

counter_is_zero(c) == c = 0

\* Sender::send succeeds unless the channel is closed.
send_ok(closed) == ~closed

\* Receiver::recv fails once the channel is closed and drained.
recv_err(q, closed) == q = <<>> /\ closed

contains(links, u) == u \in links

\* The url is checked but never recorded.
navigate_insert_skipped(links, u) == links

\* The set keeps only the url inserted last.
navigate_insert_replaces(links, u) == {u}

navigate_insert(links, u) == links \cup {u}

\* download only reads the set.
download_insert(links, u) == links

Init ==
    /\ visited_links = {}
    /\ workinput_q = <<>>
    /\ workinput_closed = FALSE
    /\ workoutput_q = <<>>
    /\ workoutput_closed = FALSE
    /\ counter = 0
    /\ workers = 0
    /\ wpc = [w \in WorkerIds |-> "unspawned"]
    /\ witem = [w \in WorkerIds |-> NoInput]
    /\ wcontains = [w \in WorkerIds |-> FALSE]
    /\ wpayload = [w \in WorkerIds |-> NoOutput]
    /\ opc = "idle"
    /\ output = NoOutput
    /\ elems = 0
    /\ ret = "None"
    /\ shut = "None"
    /\ retval = "None"
    /\ exits_sent = 0
    /\ freed = FALSE
    /\ enq_ret = "None"
    /\ calls = 0
    /\ items = <<>>
    /\ result = [i \in ItemIds |-> "None"]
    /\ before = [i \in ItemIds |-> {}]
    /\ sends = [i \in ItemIds |-> 0]
    /\ decs = [i \in ItemIds |-> 0]
    /\ visits = <<>>
    /\ exits_total = 0
    /\ shut_closed = FALSE

----------------------------------------------------------------------------
\* Enqueueing: scraper_navigate, Response::navigate, Response::download_file

\* The counter is incremented, then the message is sent; a failed send
\* returns the error to the caller.
enqueue(item) ==
    /\ calls < MaxItems
    /\ calls' = calls + 1
    /\ counter' = fetch_add(counter)
    /\ IF send_ok(workinput_closed)
         THEN /\ workinput_q' = Append(workinput_q, [item EXCEPT !.id = Len(items) + 1])
              /\ items' = Append(items, item)
              /\ enq_ret' = "Ok"
         ELSE /\ UNCHANGED <<workinput_q, items>>
              /\ enq_ret' = "Err"
    /\ UNCHANGED <<visited_links, workinput_closed, workoutput_q, workoutput_closed,
                   workers, worker_vars, loop_vars, freed,
                   result, before, sends, decs, visits, exits_total, shut_closed>>

\* Crabler::navigate, called by the owner of the instance outside run.
scraper_navigate ==
    /\ ~freed
    /\ opc \in {"idle", "returned"}
    /\ \E u \in Urls : enqueue(Navigate(u))

\* Response::navigate, called by a handler the event loop is awaiting.
response_navigate ==
    /\ opc \in {"html", "response"}
    /\ \E u \in Urls : enqueue(Navigate(u))

\* Response::download_file, called by a handler the event loop is awaiting.
response_download_file ==
    /\ opc \in {"html", "response"}
    /\ \E u \in Urls, d \in Dests : enqueue(Download(u, d))

----------------------------------------------------------------------------
\* Worker tasks

\* start_worker, called before run (run borrows the instance, and shutdown
\* sends Exit only to the handles it finds).
start_worker ==
    /\ ~freed
    /\ opc = "idle"
    /\ workers < MaxWorkers
    /\ workers' = workers + 1
    /\ wpc' = [wpc EXCEPT ![workers + 1] = "recv"]
    /\ UNCHANGED <<visited_links, chan_vars, counter, witem, wcontains, wpayload,
                   loop_vars, freed, enq_ret, hist_vars>>

\* Ids of the items whose WorkOutput has been computed.
computed == {i \in ItemIds : result[i] # "None"}

\* Worker::start: self.workinput_rx.recv().await
worker_recv(w) ==
    /\ wpc[w] = "recv"
    /\ \/ /\ workinput_q # <<>>
          /\ witem' = [witem EXCEPT ![w] = Head(workinput_q)]
          /\ workinput_q' = Tail(workinput_q)
          /\ wpc' = [wpc EXCEPT ![w] = "message"]
          /\ before' = IF Head(workinput_q).id \in ItemIds
                         THEN [before EXCEPT ![Head(workinput_q).id] = computed]
                         ELSE before
       \/ /\ recv_err(workinput_q, workinput_closed)
          /\ wpc' = [wpc EXCEPT ![w] = "recv_err"]
          /\ UNCHANGED <<witem, workinput_q, before>>
    /\ UNCHANGED <<visited_links, workinput_closed, workoutput_q, workoutput_closed,
                   counter, workers, wcontains, wpayload, loop_vars, freed, enq_ret,
                   calls, items, result, sends, decs, visits, exits_total, shut_closed>>

\* Worker::start: if let Err(RecvError) = workinput { continue; }
worker_continue(w) ==
    /\ wpc[w] = "recv_err"
    /\ wpc' = [wpc EXCEPT ![w] = "recv"]
    /\ UNCHANGED <<visited_links, chan_vars, counter, workers, witem, wcontains,
                   wpayload, loop_vars, freed, enq_ret, hist_vars>>

\* A worker that sends the Exit output on before it returns.
worker_exit_forwards(w) ==
    /\ wpc[w] = "message"
    /\ witem[w].kind = "Exit"
    /\ wpc' = [wpc EXCEPT ![w] = "exited"]
    /\ witem' = [witem EXCEPT ![w] = NoInput]
    /\ workoutput_q' = IF send_ok(workoutput_closed)
                         THEN Append(workoutput_q, ExitOutput)
                         ELSE workoutput_q
    /\ UNCHANGED <<visited_links, workinput_q, workinput_closed, workoutput_closed,
                   counter, workers, wcontains, wpayload, loop_vars, freed, enq_ret,
                   hist_vars>>

\* process_message on Exit gives Ok(WorkOutput::Exit); start returns Ok(())
\* and the supervising loop breaks.
worker_exit(w) ==
    /\ wpc[w] = "message"
    /\ witem[w].kind = "Exit"
    /\ wpc' = [wpc EXCEPT ![w] = "exited"]
    /\ witem' = [witem EXCEPT ![w] = NoInput]
    /\ UNCHANGED <<visited_links, chan_vars, counter, workers, wcontains, wpayload,
                   loop_vars, freed, enq_ret, hist_vars>>

\* Worker::navigate / Worker::download: the membership test under the read lock.
worker_contains(w) ==
    /\ wpc[w] = "message"
    /\ witem[w].kind \in {"Navigate", "Download"}
    /\ wcontains' = [wcontains EXCEPT ![w] = contains(visited_links, witem[w].url)]
    /\ wpc' = [wpc EXCEPT ![w] = "checked"]
    /\ UNCHANGED <<visited_links, chan_vars, counter, workers, witem, wpayload,
                   loop_vars, freed, enq_ret, hist_vars>>

\* The payload process_message returns for the item worker w holds.
set_payload(w, out) ==
    /\ wpayload' = [wpayload EXCEPT ![w] = out]
    /\ result' = [result EXCEPT ![witem[w].id] = out.kind]
    /\ wpc' = [wpc EXCEPT ![w] = "send"]

\* A branch that tests membership again under the write lock, making the test
\* and the insert one step.
worker_branch_atomic(w) ==
    /\ wpc[w] = "checked"
    /\ IF wcontains[w] \/ contains(visited_links, witem[w].url)
         THEN /\ set_payload(w, Noop(witem[w].url, witem[w].id))
              /\ UNCHANGED visited_links
         ELSE /\ visited_links' = IF witem[w].kind = "Navigate"
                                    THEN navigate_insert(visited_links, witem[w].url)
                                    ELSE download_insert(visited_links, witem[w].url)
              /\ wpc' = [wpc EXCEPT ![w] = "fetch"]
              /\ UNCHANGED <<wpayload, result>>
    /\ wcontains' = [wcontains EXCEPT ![w] = FALSE]
    /\ UNCHANGED <<chan_vars, counter, workers, witem, loop_vars, freed,
                   enq_ret, calls, items, before, sends, decs, visits, exits_total,
                   shut_closed>>

\* The branch on `contains`: the url is claimed (navigate) and the fetch
\* begins, or the item is answered with Noop.
worker_branch(w) ==
    /\ wpc[w] = "checked"
    /\ IF wcontains[w]
         THEN /\ set_payload(w, Noop(witem[w].url, witem[w].id))
              /\ UNCHANGED visited_links
         ELSE /\ visited_links' = IF witem[w].kind = "Navigate"
                                    THEN navigate_insert(visited_links, witem[w].url)
                                    ELSE download_insert(visited_links, witem[w].url)
              /\ wpc' = [wpc EXCEPT ![w] = "fetch"]
              /\ UNCHANGED <<wpayload, result>>
    /\ wcontains' = [wcontains EXCEPT ![w] = FALSE]
    /\ UNCHANGED <<chan_vars, counter, workers, witem, loop_vars, freed,
                   enq_ret, calls, items, before, sends, decs, visits, exits_total,
                   shut_closed>>

\* What a failed fetch, body read or file write becomes (process_message).
failure_payload(item) == Error(item.url, item.id)

\* The fetch (and, for a download, the file write) succeeds.
worker_fetch_ok(w) ==
    /\ wpc[w] = "fetch"
    /\ IF witem[w].kind = "Navigate"
         THEN \E s \in Statuses : set_payload(w, Markup(witem[w].url, s, witem[w].id))
         ELSE set_payload(w, Downloaded(witem[w].url, witem[w].destination, witem[w].id))
    /\ UNCHANGED <<visited_links, chan_vars, counter, workers, witem, wcontains,
                   loop_vars, freed, enq_ret, calls, items, before, sends, decs,
                   visits, exits_total, shut_closed>>

\* The error is not turned into a WorkOutput: `?` returns it from start.
worker_fetch_err_propagated(w) ==
    /\ wpc[w] = "fetch"
    /\ wpc' = [wpc EXCEPT ![w] = "failed"]
    /\ result' = [result EXCEPT ![witem[w].id] = "Error"]
    /\ witem' = [witem EXCEPT ![w] = NoInput]
    /\ UNCHANGED <<visited_links, chan_vars, counter, workers, wcontains, wpayload,
                   loop_vars, freed, enq_ret, calls, items, before, sends, decs,
                   visits, exits_total, shut_closed>>

\* A failed fetch that takes the url out of the visited set again.
worker_fetch_err_unclaims(w) ==
    /\ wpc[w] = "fetch"
    /\ set_payload(w, failure_payload(witem[w]))
    /\ visited_links' = visited_links \ {witem[w].url}
    /\ UNCHANGED <<chan_vars, counter, workers, witem, wcontains,
                   loop_vars, freed, enq_ret, calls, items, before, sends, decs,
                   visits, exits_total, shut_closed>>

\* The fetch, the body read or the file write fails: `?` returns the error
\* to process_message, which turns it into WorkOutput::Error.
worker_fetch_err(w) ==
    /\ wpc[w] = "fetch"
    /\ set_payload(w, failure_payload(witem[w]))
    /\ UNCHANGED <<visited_links, chan_vars, counter, workers, witem, wcontains,
                   loop_vars, freed, enq_ret, calls, items, before, sends, decs,
                   visits, exits_total, shut_closed>>

\* A worker whose send on the closed output channel ends its slot for good.
worker_send_ends(w) ==
    /\ wpc[w] = "send"
    /\ IF send_ok(workoutput_closed)
         THEN /\ workoutput_q' = Append(workoutput_q, wpayload[w])
              /\ sends' = [sends EXCEPT ![wpayload[w].id] = @ + 1]
              /\ wpc' = [wpc EXCEPT ![w] = "recv"]
         ELSE /\ wpc' = [wpc EXCEPT ![w] = "exited"]
              /\ UNCHANGED <<workoutput_q, sends>>
    /\ witem' = [witem EXCEPT ![w] = NoInput]
    /\ wpayload' = [wpayload EXCEPT ![w] = NoOutput]
    /\ UNCHANGED <<visited_links, workinput_q, workinput_closed, workoutput_closed,
                   counter, workers, wcontains, loop_vars, freed, enq_ret,
                   calls, items, result, before, decs, visits, exits_total, shut_closed>>

\* Worker::start: workoutput_tx.send(payload?).await?
worker_send(w) ==
    /\ wpc[w] = "send"
    /\ IF send_ok(workoutput_closed)
         THEN /\ workoutput_q' = Append(workoutput_q, wpayload[w])
              /\ sends' = [sends EXCEPT ![wpayload[w].id] = @ + 1]
              /\ wpc' = [wpc EXCEPT ![w] = "recv"]
         ELSE /\ wpc' = [wpc EXCEPT ![w] = "failed"]
              /\ UNCHANGED <<workoutput_q, sends>>
    /\ witem' = [witem EXCEPT ![w] = NoInput]
    /\ wpayload' = [wpayload EXCEPT ![w] = NoOutput]
    /\ UNCHANGED <<visited_links, workinput_q, workinput_closed, workoutput_closed,
                   counter, workers, wcontains, loop_vars, freed, enq_ret,
                   calls, items, result, before, decs, visits, exits_total, shut_closed>>

\* A supervisor that breaks out of its loop on Err as it does on Ok.
worker_restart_gives_up(w) ==
    /\ wpc[w] = "failed"
    /\ wpc' = [wpc EXCEPT ![w] = "exited"]
    /\ UNCHANGED <<visited_links, chan_vars, counter, workers, witem, wcontains,
                   wpayload, loop_vars, freed, enq_ret, hist_vars>>

\* start_worker_impl: Err(e) => warn!("Restarting worker"), and the loop
\* calls worker.start() again.
worker_restart(w) ==
    /\ wpc[w] = "failed"
    /\ wpc' = [wpc EXCEPT ![w] = "recv"]
    /\ UNCHANGED <<visited_links, chan_vars, counter, workers, witem, wcontains,
                   wpayload, loop_vars, freed, enq_ret, hist_vars>>

worker(w) ==
    \/ worker_recv(w)
    \/ worker_continue(w)
    \/ worker_exit(w)
    \/ worker_contains(w)
    \/ worker_branch(w)
    \/ worker_fetch_ok(w)
    \/ worker_fetch_err(w)
    \/ worker_send(w)
    \/ worker_restart(w)

----------------------------------------------------------------------------
\* run, the event loop and the shutdown

\* Every output other than a fetched page is reported as 200.
response_status_ok(out) == IF out.kind = "Markup" THEN out.status ELSE 200

\* The status of the Response the event loop builds for a WorkOutput.
response_status(out) ==
    CASE out.kind = "Markup" -> out.status
      [] out.kind = "Download" -> 200
      [] out.kind = "Noop" -> 304
      [] out.kind = "Error" -> 500
      [] OTHER -> 500

\* Its download_destination: <<>> is None, <<d>> is Some(d).
response_destination(out) ==
    IF out.kind = "Download" THEN <<out.destination>> ELSE <<>>

\* The url is kept only for a fetched page.
response_url_markup_only(out) == IF out.kind = "Markup" THEN out.url ELSE ""

response_url(out) == IF out.kind = "Exit" THEN "" ELSE out.url

\* Response::new(response_status, response_url, response_destination, ..)
response_new(out) ==
    [id |-> out.id, url |-> response_url(out), status |-> response_status(out),
     download_destination |-> response_destination(out)]

\* run: the event loop is entered.
run ==
    /\ ~freed
    /\ opc = "idle"
    /\ opc' = "recv"
    /\ UNCHANGED <<visited_links, chan_vars, counter, workers, worker_vars, output,
                   elems, ret, shut, retval, exits_sent, freed, enq_ret, hist_vars>>

\* run called on an instance whose run has returned.
run_again ==
    /\ ~freed
    /\ opc = "returned"
    /\ opc' = "recv"
    /\ ret' = "None"
    /\ shut' = "None"
    /\ retval' = "None"
    /\ exits_sent' = 0
    /\ shut_closed' = FALSE
    /\ UNCHANGED <<visited_links, chan_vars, counter, workers, worker_vars, output,
                   elems, freed, enq_ret, calls, items, result, before, sends, decs,
                   visits, exits_total>>

\* scraper.dispatch_on_response(response) is called with the Response built
\* for `out`.
dispatch_on_response(out) ==
    /\ opc' = "response"
    /\ visits' = Append(visits, response_new(out))

\* event_loop: workoutput_ch.rx.recv().await?, then the match on the output.
event_loop_recv ==
    /\ opc = "recv"
    /\ \/ /\ workoutput_q # <<>>
          /\ output' = Head(workoutput_q)
          /\ workoutput_q' = Tail(workoutput_q)
          /\ \E n \in 0..MaxElems :
                /\ elems' = IF Head(workoutput_q).kind = "Markup" THEN n ELSE 0
                /\ IF elems' = 0
                     THEN dispatch_on_response(Head(workoutput_q))
                     ELSE opc' = "html" /\ UNCHANGED visits
          /\ UNCHANGED ret
       \/ /\ recv_err(workoutput_q, workoutput_closed)
          /\ ret' = "RecvError"
          /\ opc' = "shutdown"
          /\ UNCHANGED <<output, workoutput_q, elems, visits>>
    /\ UNCHANGED <<visited_links, workinput_q, workinput_closed, workoutput_closed,
                   counter, workers, worker_vars, shut, retval, exits_sent, freed,
                   enq_ret, calls, items, result, before, sends, decs, exits_total,
                   shut_closed>>

\* dispatch_on_html returns Ok for one matched element.
dispatch_on_html_ok ==
    /\ opc = "html"
    /\ elems' = elems - 1
    /\ IF elems = 1
         THEN dispatch_on_response(output)
         ELSE opc' = "html" /\ UNCHANGED visits
    /\ UNCHANGED <<visited_links, chan_vars, counter, workers, worker_vars, output,
                   ret, shut, retval, exits_sent, freed, enq_ret, calls, items,
                   result, before, sends, decs, exits_total, shut_closed>>

\* A handler returns Err: `?` returns it from the event loop.
handler_err ==
    /\ ret' = "CallbackFailed"
    /\ opc' = "shutdown"
    /\ UNCHANGED <<visited_links, chan_vars, counter, workers, worker_vars, output,
                   elems, shut, retval, exits_sent, freed, enq_ret, hist_vars>>

dispatch_on_html_err ==
    /\ opc = "html"
    /\ handler_err

dispatch_on_response_ok ==
    /\ opc = "response"
    /\ opc' = "decrement"
    /\ UNCHANGED <<visited_links, chan_vars, counter, workers, worker_vars, output,
                   elems, ret, shut, retval, exits_sent, freed, enq_ret, hist_vars>>

dispatch_on_response_err ==
    /\ opc = "response"
    /\ handler_err

\* event_loop: counter.fetch_sub(1, SeqCst)
event_loop_decrement ==
    /\ opc = "decrement"
    /\ counter' = fetch_sub(counter)
    /\ decs' = IF output.id \in ItemIds THEN [decs EXCEPT ![output.id] = @ + 1] ELSE decs
    /\ opc' = "check"
    /\ UNCHANGED <<visited_links, chan_vars, workers, worker_vars, output, elems, ret,
                   shut, retval, exits_sent, freed, enq_ret, calls, items, result,
                   before, sends, visits, exits_total, shut_closed>>

\* event_loop: if counter.load(SeqCst) == 0 { return Ok(()) }
event_loop_check ==
    /\ opc = "check"
    /\ IF counter_is_zero(counter)
         THEN ret' = "Ok" /\ opc' = "shutdown"
         ELSE opc' = "recv" /\ UNCHANGED ret
    /\ output' = NoOutput
    /\ UNCHANGED <<visited_links, chan_vars, counter, workers, worker_vars, elems,
                   shut, retval, exits_sent, freed, enq_ret, hist_vars>>

\* One Exit too few.
shutdown_exits_short(n) == IF n > 0 THEN n - 1 ELSE 0

\* scraper_shutdown: one Exit for each handle in `workers`.
shutdown_exits(n) == n

\* run returns what shutdown returned.
run_result_of_shutdown(r, s) == IF s = "Err" THEN "SendError" ELSE "Ok"

\* run: let ret = event_loop().await; shutdown().await?; ret
run_result(r, s) == IF s = "Err" THEN "SendError" ELSE r

\* scraper_shutdown: input.tx.send(WorkInput::Exit).await?
shutdown_send ==
    /\ opc = "shutdown"
    /\ exits_sent < shutdown_exits(workers)
    /\ IF send_ok(workinput_closed)
         THEN /\ workinput_q' = Append(workinput_q, Exit)
              /\ exits_sent' = exits_sent + 1
              /\ exits_total' = exits_total + 1
              /\ UNCHANGED <<opc, shut, retval, shut_closed>>
         ELSE /\ shut' = "Err"
              /\ retval' = run_result(ret, "Err")
              /\ opc' = "returned"
              /\ shut_closed' = TRUE
              /\ UNCHANGED <<workinput_q, exits_sent, exits_total>>
    /\ UNCHANGED <<visited_links, workinput_closed, workoutput_q, workoutput_closed,
                   counter, workers, worker_vars, output, elems, ret, freed, enq_ret,
                   calls, items, result, before, sends, decs, visits>>

\* scraper_shutdown: input.tx.close(); input.rx.close();
shutdown_close_input ==
    /\ opc = "shutdown"
    /\ exits_sent >= shutdown_exits(workers)
    /\ workinput_closed' = TRUE
    /\ opc' = "close_output"
    /\ UNCHANGED <<visited_links, workinput_q, workoutput_q, workoutput_closed,
                   counter, workers, worker_vars, output, elems, ret, shut, retval,
                   exits_sent, freed, enq_ret, hist_vars>>

\* scraper_shutdown: output.tx.close(); output.rx.close(); Ok(()), and run
\* returns.
shutdown_close_output ==
    /\ opc = "close_output"
    /\ workoutput_closed' = TRUE
    /\ shut' = "Ok"
    /\ retval' = run_result(ret, "Ok")
    /\ opc' = "returned"
    /\ UNCHANGED <<visited_links, workinput_q, workinput_closed, workoutput_q,
                   counter, workers, worker_vars, output, elems, ret, exits_sent,
                   freed, enq_ret, hist_vars>>

\* The instance is dropped: its Sender and Receiver handles go, which closes
\* the work channel (no sender left) and the result channel (no receiver left).
drop ==
    /\ ~freed
    /\ opc \in {"idle", "returned"}
    /\ freed' = TRUE
    /\ workinput_closed' = TRUE
    /\ workoutput_closed' = TRUE
    /\ UNCHANGED <<visited_links, workinput_q, workoutput_q, counter, workers,
                   worker_vars, loop_vars, enq_ret, hist_vars>>

----------------------------------------------------------------------------
\* Specifications

event_loop ==
    \/ event_loop_recv
    \/ dispatch_on_html_ok
    \/ dispatch_on_html_err
    \/ dispatch_on_response_ok
    \/ dispatch_on_response_err
    \/ event_loop_decrement
    \/ event_loop_check

shutdown ==
    \/ shutdown_send
    \/ shutdown_close_input
    \/ shutdown_close_output

Next ==
    \/ scraper_navigate
    \/ start_worker
    \/ run
    \/ response_navigate
    \/ response_download_file
    \/ \E w \in WorkerIds : worker(w)
    \/ event_loop
    \/ shutdown
    \/ drop

\* One instance, run at most once.
Spec == Init /\ [][Next]_vars

\* The tasks are scheduled fairly, every fetch ends and every handler returns.
Fairness ==
    /\ \A w \in WorkerIds : WF_vars(worker(w))
    /\ WF_vars(event_loop)
    /\ WF_vars(shutdown)

FairSpec == Spec /\ Fairness

\* One instance, whose run may be called again after it returned.
NextRerun == Next \/ run_again

SpecRerun == Init /\ [][NextRerun]_vars

----------------------------------------------------------------------------
\* Properties

SentIds == 1..Len(items)

\* Worker w holds a Navigate or Download item (dequeued, its WorkOutput not
\* yet sent).
holds_item(w) == witem[w].kind \in {"Navigate", "Download"}

\* A non-Exit item is in the work channel, held by a worker, or its
\* WorkOutput waits in the result channel.
outstanding ==
    \/ \E k \in 1..Len(workinput_q) : workinput_q[k].kind # "Exit"
    \/ \E w \in WorkerIds : holds_item(w)
    \/ workoutput_q # <<>>

\* Every item sent so far has had exactly one WorkOutput sent for it, and
\* the event loop has decremented the counter for it exactly once.
all_processed == \A i \in SentIds : sends[i] = 1 /\ decs[i] = 1

\* C1: right after the event loop's decrement the counter is 0 if and only
\* if every item enqueued so far has produced exactly one result and that
\* result has been fully processed; and the event loop has never returned Ok
\* while a non-Exit item is queued, held by a worker or waiting as a result.
C1_CounterZeroIffDrained ==
    /\ opc = "check" => (counter = 0 <=> all_processed)
    /\ ret = "Ok" => ~outstanding

\* C1's case: the counter reaches 0 after an item a handler enqueued.
C1_Witness ==
    /\ opc = "check"
    /\ counter = 0
    /\ \E i \in SentIds : items[i].kind = "Download"

\* C2 as claimed: once run is called with at least one worker started, it
\* eventually returns, whatever the seed list.
C2_RunReturns == (opc # "idle" /\ workers >= 1) ~> (opc = "returned")

\* With at least one seed enqueued before run, run does return.
RunReturnsWhenSeeded ==
    (opc # "idle" /\ workers >= 1 /\ calls >= 1) ~> (opc = "returned")

\* Navigate items i and j are the only two Navigate items for their url, and
\* j was dequeued after the WorkOutput of i was computed.
sequential_pair(i, j) ==
    /\ i # j
    /\ items[i].kind = "Navigate"
    /\ items[j].kind = "Navigate"
    /\ items[i].url = items[j].url
    /\ \A k \in SentIds :
          (items[k].kind = "Navigate" /\ items[k].url = items[i].url) => k \in {i, j}
    /\ i \in before[j]
    /\ result[j] # "None"

\* C3: two sequential Navigate items for one url give one Markup or Error
\* and one Noop, never two Markup.
C3_SequentialNavigateDedup ==
    \A i, j \in SentIds :
        sequential_pair(i, j) =>
            /\ result[i] \in {"Markup", "Error"}
            /\ result[j] = "Noop"

C3_Witness ==
    \E i, j \in SentIds :
        /\ sequential_pair(i, j)
        /\ result[i] = "Markup"
        /\ sends[i] = 1
        /\ sends[j] = 1

\* C4 as claimed: a worker fetching for a Download item has inserted its url
\* in the visited set, and any item for that url dequeued after the Download
\* was answered is answered with Noop.
C4_DownloadClaimsUrl ==
    /\ \A w \in WorkerIds :
          (wpc[w] = "fetch" /\ witem[w].kind = "Download")
              => witem[w].url \in visited_links
    /\ \A i, j \in SentIds :
          (/\ i # j
           /\ items[i].kind = "Download"
           /\ result[i] \in {"Download", "Error"}
           /\ items[j].url = items[i].url
           /\ i \in before[j]
           /\ result[j] # "None")
              => result[j] = "Noop"

\* Item i is held by some worker.
held(i) == \E w \in WorkerIds : witem[w].id = i

\* C5: a failed fetch or write becomes an Error output the worker is about
\* to send; the worker loop ends with an error only when the result channel
\* is closed; and while that channel is open every Error output a worker has
\* let go of was sent exactly once.
C5_FetchFailureIsData ==
    /\ \A w \in WorkerIds :
          /\ wpayload[w].kind = "Error" =>
                (wpc[w] = "send" /\ wpayload[w] = Error(witem[w].url, witem[w].id))
          /\ wpc[w] = "failed" => workoutput_closed
    /\ \A i \in SentIds :
          (result[i] = "Error" /\ ~held(i) /\ ~workoutput_closed) => sends[i] = 1

\* C5's case: after the fetch of one url failed, a Navigate for another url
\* was dequeued, fetched and answered.
C5_Witness ==
    \E i, j \in SentIds :
        /\ result[i] = "Error"
        /\ sends[i] = 1
        /\ items[j].kind = "Navigate"
        /\ items[j].url # items[i].url
        /\ i \in before[j]
        /\ result[j] = "Markup"
        /\ sends[j] = 1

\* C6: once a handler has failed, the event loop receives and processes
\* nothing more; shutdown runs, and run returns the handler's failure.
C6_CallbackFaultSurfaces ==
    [][/\ ret = "CallbackFailed" =>
             (output' = output /\ visits' = visits /\ decs' = decs /\ ret' = ret)
       /\ (ret' = "CallbackFailed" /\ opc' = "returned") =>
             (shut' = "Ok" /\ retval' = "CallbackFailed"
              /\ workinput_closed' /\ workoutput_closed')]_vars

\* C6's case: run has returned a handler's failure while another result was
\* still waiting in the result channel.
C6_Witness ==
    /\ opc = "returned"
    /\ retval = "CallbackFailed"
    /\ workoutput_q # <<>>

\* C7: when run returns both channels are closed, and shutdown sent one
\* Exit for every worker handle while the work channel was still open.
C7_ShutdownClosesBoth ==
    /\ opc = "shutdown" => (~workinput_closed /\ exits_total <= workers)
    /\ opc \in {"close_output", "returned"} =>
          (workinput_closed /\ exits_total = workers)
    /\ opc = "returned" => (workoutput_closed /\ shut = "Ok")

\* C7's case: run returned after a handler's failure, with two workers.
C7_Witness ==
    /\ opc = "returned"
    /\ ret = "CallbackFailed"
    /\ workers = 2
    /\ exits_total = 2

\* C8 as claimed: once the instance is dropped without shutdown having sent
\* Exit, every worker task spawned eventually ends.
C8_WorkersExitAfterDrop ==
    (freed /\ exits_total = 0) ~> (\A w \in WorkerIds : wpc[w] \in {"unspawned", "exited"})

\* The Responses dispatch_on_response was called with for item i.
visits_of(i) == {k \in 1..Len(visits) : visits[k].id = i}

\* C9: when run returns Ok, dispatch_on_response has been called exactly
\* once for every item enqueued, with that item's url; so with a single seed
\* and no item enqueued by a handler, exactly once, with the seed url.
C9_OneVisitPerItem ==
    ret = "Ok" =>
        /\ Len(visits) = Len(items)
        /\ \A i \in SentIds :
              /\ Cardinality(visits_of(i)) = 1
              /\ \A k \in visits_of(i) : visits[k].url = items[i].url

\* C9's case: run returned Ok after a seed and an item a handler enqueued.
C9_Witness ==
    /\ opc = "returned"
    /\ retval = "Ok"
    /\ Len(items) = 2
    /\ items[2].kind = "Download"

\* C10 as claimed: a shutdown whose send met a closed channel still returns
\* Ok, with both channels closed.
C10_ShutdownToleratesClosed ==
    shut_closed => (shut = "Ok" /\ workinput_closed /\ workoutput_closed)

\* The sum of the decrements made for the items.
RECURSIVE sum_decs(_)
sum_decs(n) == IF n = 0 THEN 0 ELSE decs[n] + sum_decs(n - 1)

\* C11: the Response passed to dispatch_on_response has status 200 and the
\* destination for a Download output, the fetched status for Markup, 304 for
\* Noop and 500 for Error, and no destination except for Download.
C11_StatusByVariant ==
    /\ \A k \in 1..Len(visits) :
          LET v == visits[k]
              i == v.id
          IN /\ i \in SentIds
             /\ result[i] = "Download" =>
                   (v.status = 200 /\ v.download_destination = <<items[i].destination>>)
             /\ result[i] = "Markup" =>
                   (v.status \in Statuses /\ v.download_destination = <<>>)
             /\ result[i] = "Noop" => (v.status = 304 /\ v.download_destination = <<>>)
             /\ result[i] = "Error" => (v.status = 500 /\ v.download_destination = <<>>)
    /\ (opc = "response" /\ output.kind = "Markup") =>
          visits[Len(visits)].status = output.status

\* C11's case: a page fetched with status 404 and a download were both
\* passed to dispatch_on_response.
C11_Witness ==
    /\ \E k \in 1..Len(visits) :
          result[visits[k].id] = "Markup" /\ visits[k].status = 404
    /\ \E k \in 1..Len(visits) :
          result[visits[k].id] = "Download" /\ visits[k].status = 200

\* C12 as claimed: in every state the counter is the number of items
\* enqueued minus the number of results the event loop has fully processed.
C12_CounterIsEnqueuedMinusProcessed ==
    counter = Len(items) - sum_decs(MaxItems)

\* Every tracked worker has ended and the Exit messages are all consumed.
all_stopped ==
    /\ \A w \in 1..workers : wpc[w] = "exited"
    /\ \A k \in 1..Len(workinput_q) : workinput_q[k].kind # "Exit"
    /\ exits_total = workers

\* C13: once shutdown has run, each of the tracked workers eventually
\* consumes one Exit and its supervising loop ends for good, also when items
\* queued ahead of the Exit messages could no longer have their output sent.
C13_WorkersStopAfterShutdown ==
    (opc = "returned" /\ shut = "Ok") ~> [](all_stopped)

\* C13's case: after a handler's failure two workers ended, one of them having
\* processed an item whose output it could not send.
C13_Witness ==
    /\ opc = "returned"
    /\ ret = "CallbackFailed"
    /\ workers = 2
    /\ all_stopped
    /\ \E i \in SentIds : result[i] # "None" /\ sends[i] = 0

\* C14: a worker whose loop ended with an error is started again with the
\* same visited set and channels; a worker ends only on an Exit message, and
\* once ended is never started again.
C14_SlotEndsOnlyOnExit ==
    [][\A w \in WorkerIds :
          /\ (wpc[w] = "failed" /\ wpc'[w] # "failed") =>
                (wpc'[w] = "recv" /\ visited_links' = visited_links
                                  /\ chan_vars' = chan_vars)
          /\ wpc[w] = "exited" => wpc'[w] = "exited"
          /\ (wpc[w] # "exited" /\ wpc'[w] = "exited") =>
                (wpc[w] = "message" /\ witem[w].kind = "Exit")]_vars

\* C14's case: the only worker failed to send an output, was started again
\* and then ended on its Exit message.
C14_Witness ==
    /\ workers = 1
    /\ wpc[1] = "exited"
    /\ \E i \in SentIds : result[i] # "None" /\ sends[i] = 0

\* C15: a worker that dequeues Exit sends nothing, so no Exit output is ever
\* in the output channel, held by the event loop, passed to
\* dispatch_on_response or decremented for.
C15_ExitNeverForwarded ==
    /\ \A k \in 1..Len(workoutput_q) : workoutput_q[k].kind # "Exit"
    /\ \A w \in WorkerIds : wpayload[w].kind # "Exit"
    /\ output.kind # "Exit"
    /\ \A k \in 1..Len(visits) : visits[k].id \in SentIds /\ visits[k].url # ""
    /\ opc = "decrement" => output.id \in SentIds

\* C15's case: both workers dequeued Exit and ended, after a run that
\* returned Ok.
C15_Witness ==
    /\ workers = 2
    /\ \A w \in 1..workers : wpc[w] = "exited"
    /\ ret = "Ok"
    /\ exits_total = 2
    /\ workoutput_q = <<>>

\* C16: a url in the visited set stays in it in every later state.
C16_VisitedSetGrows == [][visited_links \subseteq visited_links']_vars

\* C16's case: two workers have inserted two urls.
C16_Witness ==
    /\ visited_links = {"a", "b"}
    /\ \E i, j \in SentIds : i # j /\ result[i] = "Markup" /\ result[j] = "Markup"

\* C17: the membership test and the insert are separate steps: a worker that
\* read its url as absent goes on to fetch it whatever the set holds by then,
\* so two workers that both read one url as absent both fetch it.
C17_StaleCheckStillFetches ==
    [][\A w \in WorkerIds :
          (wpc[w] = "checked" /\ ~wcontains[w] /\ wpc'[w] # "checked") =>
             /\ wpc'[w] = "fetch"
             /\ witem[w].kind = "Navigate" => witem[w].url \in visited_links']_vars

\* C17's case: two Navigate items for one url, taken by two workers, both
\* fetched: two Markup outputs were sent for the url.
C17_Witness ==
    /\ workers = 2
    /\ \E i, j \in SentIds :
          /\ i # j
          /\ items[i].kind = "Navigate" /\ items[j].kind = "Navigate"
          /\ items[i].url = items[j].url
          /\ result[i] = "Markup" /\ result[j] = "Markup"
          /\ sends[i] = 1 /\ sends[j] = 1
          /\ i \notin before[j] /\ j \notin before[i]

\* C18: the counter is never negative, and whenever the event loop is about
\* to decrement it the counter is at least 1, so the unsigned value never
\* wraps.
C18_NoDecrementAtZero ==
    /\ counter >= 0
    /\ opc = "decrement" => counter >= 1

\* C18's case: the event loop is about to make the decrement that brings the
\* counter to 0, having decremented once before.
C18_Witness ==
    /\ opc = "decrement"
    /\ counter = 1
    /\ \E i \in SentIds : decs[i] = 1

\* C19: the url of a Navigate item whose fetch failed is in the visited set,
\* and every Navigate item for that url dequeued after the failure is
\* answered with Noop.
C19_FailedUrlStaysVisited ==
    \A i \in SentIds :
        (items[i].kind = "Navigate" /\ result[i] = "Error") =>
            /\ items[i].url \in visited_links
            /\ \A j \in SentIds :
                  (/\ items[j].kind = "Navigate"
                   /\ items[j].url = items[i].url
                   /\ i \in before[j]
                   /\ result[j] # "None") => result[j] = "Noop"

\* C19's case: a Navigate whose fetch failed, and a later Navigate for the
\* same url answered with Noop.
C19_Witness ==
    \E i, j \in SentIds :
        /\ items[i].kind = "Navigate" /\ items[j].kind = "Navigate"
        /\ items[i].url = items[j].url
        /\ result[i] = "Error"
        /\ i \in before[j]
        /\ result[j] = "Noop"

\* C20 as claimed: an enqueue whose send fails on the closed work channel
\* returns the error, leaves the counter at its value before the call and
\* adds no item to the work channel.
C20_FailedEnqueueLeavesCounter ==
    [][(calls' = calls + 1 /\ enq_ret' = "Err") =>
          (counter' = counter /\ workinput_q' = workinput_q)]_vars

====
